---- MODULE Spec2Model ----
(***************************************************************************)
(* TuRBOSubSpace (smac/optimizer/local_bo/turbo_subspace.py): one adaptive *)
(* trust region.  The state is the object's fields plus the two random     *)
(* sources the code draws from (the owned RandomState self.rng and the     *)
(* process-global numpy state np.random) and the record of the last call   *)
(* and of what it returned.                                                *)
(*                                                                         *)
(* Numbers.  Lengths and coordinates are exact dyadic multiples of 1/One;  *)
(* doubling, halving and min are exact in binary floating point as well.   *)
(* Objective values are integers; the margin test of adjust_length is      *)
(* evaluated exactly, scaled by MarginDen.                                 *)
(***************************************************************************)
EXTENDS Integers, Sequences, FiniteSets, TLC

----------------------------------------------------------------------------
(* Bounds of the model *)

\* adjust_length is cut off once length is below length_min / 2^SubBits
\* (the code halves without limit)
SubBits == 1
\* the observation history holds at most this many entries
MaxObs == 2

\* the states of self.rng and of np.random, and what the OS entropy can be
RngStates == {0, 1}
NpStates == {0, 1}
Entropy == {0, 1}

\* the representation of 1.0, and of a uniform draw of [0, 1)
LenUnit == 2 ^ 6
One == 20 * LenUnit
RandDen == 10 ^ 2

----------------------------------------------------------------------------
(* Program constants *)

\* 1e-3, the relative margin of a success (line 146), as 1 / MarginDen
MarginDen == 1000
\* 20.0 of prob_perturb = min(20.0 / n_dims, 1.0) (line 214)
PerturbDims == 20
\* 100 of n_candidates = min(100 * n_hps, n_candidate_max) (line 90)
CandPerDim == 100
\* randint(1, 2 ** 20) (line 129) and randint(low=0, high=10000000) (line 186)
LhsSeedLow == 1
LhsSeedHigh == 1048576
SobolSeedLow == 0
SobolSeedHigh == 10000000

Min2(a, b) == IF a <= b THEN a ELSE b
Max2(a, b) == IF a >= b THEN a ELSE b
Abs(a) == IF a < 0 THEN -a ELSE a

RECURSIVE SeqMin(_)
\* np.min of a non-empty array
SeqMin(s) ==
    IF Len(s) = 1 THEN s[1] ELSE Min2(s[1], SeqMin(Tail(s)))

----------------------------------------------------------------------------
(* Constructor arguments (lines 22-43).  Lengths are in units of 1/One:    *)
(* 0.8 = 16 * LenUnit, 1.6 = 32 * LenUnit, length_min = 0.5 = 10 * LenUnit *)

ArgsLowDim ==
    [n_dims |-> 2, length_init |-> 16 * LenUnit, length_min |-> 10 * LenUnit,
     length_max |-> 32 * LenUnit, success_tol |-> 2, failure_tol_min |-> 1,
     n_init_x_params |-> 1, n_candidate_max |-> 2,
     model_local |-> "PartialSparseGaussianProcess"]

\* more than 20 dimensions, so that prob_perturb < 1 (line 214)
ArgsHighDim ==
    [n_dims |-> 21, length_init |-> 16 * LenUnit, length_min |-> 10 * LenUnit,
     length_max |-> 32 * LenUnit, success_tol |-> 2, failure_tol_min |-> 1,
     n_init_x_params |-> 1, n_candidate_max |-> 2,
     model_local |-> "PartialSparseGaussianProcess"]

\* new_observation of adjust_length: a scalar or a non-empty array.  In
\* the high-dimensional runs the outer loop reports improving values only.
NewObservations(a) ==
    IF a.n_dims > 20
    THEN {[isscalar |-> TRUE, values |-> <<998>>]}
    ELSE {[isscalar |-> TRUE, values |-> <<y>>] : y \in {998, 999, 1000}}
            \cup {[isscalar |-> FALSE, values |-> <<1000, 998>>]}

----------------------------------------------------------------------------
(* The random sources *)

\* RandomState: the raw output in a state, and the state after a draw
RngRaw(s) == (s * 75 + 74) % 65537
RngAdvance(s) == (s + 1) % Cardinality(RngStates)
\* RandomState.randint(low, high): an integer of [low, high)
RandInt(raw, low, high) == low + (raw % (high - low))
\* np.random.seed(v): the global state is a function of v alone
NpSeed(v) == v % Cardinality(NpStates)

\* scipy LatinHypercube(d, seed=e).random(n): n points, one per stratum in
\* each dimension (a permutation of the strata per dimension), in (0, 1]
LatinHypercube(d, e, n) ==
    [i \in 1..n |-> [j \in 1..d |-> ((((i - 1 + e * j) % n) + 1) * One) \div n]]

\* Configuration(cs_local, vector=v)
Configuration(v) == [vector |-> v, origin |-> "None"]

----------------------------------------------------------------------------
(* __init__, lines 87-93: the derived fields *)

\* mutant: the size of the initial design does not scale with n_dims
n_init_ignores_dims(a) == a.n_init_x_params

n_dims(a) == a.n_dims
n_init(a) == a.n_init_x_params * n_dims(a)
n_candidates(a) == Min2(CandPerDim * n_dims(a), a.n_candidate_max)
\* mutant: the number of dimensions is ignored
failure_tol_ignores_dims(a) == a.failure_tol_min
failure_tol(a) == Max2(a.failure_tol_min, n_dims(a))
success_tol(a) == a.success_tol

\* the locals of a call that builds no mask and ranks no candidates
NoLocals ==
    [raw_mask |-> <<>>, mask |-> <<>>, lb |-> <<>>, ub |-> <<>>,
     configs |-> <<>>, acq_values |-> <<>>, random |-> <<>>]

Returned(v) == [kind |-> "return", value |-> v]
Raised(e) == [kind |-> "raise", value |-> <<e>>]

----------------------------------------------------------------------------
(* _restart_turbo, lines 104-131.  np.random.seed returns None, so the     *)
(* design is seeded with seed=None, i.e. from OS entropy e; the draw from  *)
(* self.rng reseeds the global numpy state.                                *)

\* mutant: a restart that leaves the collapsed length in place
restart_turbo_keeps_length(s, n_init_points, e) ==
    [s EXCEPT !.success_count = 0,
              !.failure_count = 0,
              !.model_x = <<>>,
              !.model_y = <<>>,
              !.np_random = NpSeed(RandInt(RngRaw(s.rng), LhsSeedLow, LhsSeedHigh)),
              !.rng = RngAdvance(s.rng),
              !.init_configs =
                  LET init_vectors == LatinHypercube(n_dims(s.args), e, n_init_points)
                  IN  [i \in 1..n_init_points |-> Configuration(init_vectors[i])],
              !.effects = @ \cup {"LatinHypercube"}]

restart_turbo(s, n_init_points, e) ==
    [s EXCEPT !.success_count = 0,
              !.failure_count = 0,
              !.length = s.args.length_init,
              !.model_x = <<>>,
              !.model_y = <<>>,
              !.np_random = NpSeed(RandInt(RngRaw(s.rng), LhsSeedLow, LhsSeedHigh)),
              !.rng = RngAdvance(s.rng),
              !.init_configs =
                  LET init_vectors == LatinHypercube(n_dims(s.args), e, n_init_points)
                  IN  [i \in 1..n_init_points |-> Configuration(init_vectors[i])],
              !.effects = @ \cup {"LatinHypercube"}]

----------------------------------------------------------------------------
(* adjust_length, lines 133-166 *)

\* line 142
optim_observation(new_observation) ==
    IF new_observation.isscalar THEN new_observation.values[1]
    ELSE SeqMin(new_observation.values)

\* mutant: the margin is taken from the signed best value, without fabs
is_success_signed_margin(optim, model_y) ==
    MarginDen * optim < MarginDen * SeqMin(model_y) - SeqMin(model_y)

\* line 146: optim < min(model_y) - 1e-3 * fabs(min(model_y))
is_success(optim, model_y) ==
    MarginDen * optim < MarginDen * SeqMin(model_y) - Abs(SeqMin(model_y))

\* mutant: the other counter is not reset
count_outcome_no_reset(s, success) ==
    IF success
    THEN [s EXCEPT !.success_count = @ + 1]
    ELSE [s EXCEPT !.failure_count = @ + 1]

\* lines 146-153
count_outcome(s, success) ==
    IF success
    THEN [s EXCEPT !.success_count = @ + 1, !.failure_count = 0]
    ELSE [s EXCEPT !.success_count = 0, !.failure_count = @ + 1]

\* mutant: the expansion is not capped at length_max
resize_uncapped(s) ==
    IF s.success_count = success_tol(s.args)
    THEN [s EXCEPT !.length = 2 * s.length, !.success_count = 0]
    ELSE IF s.failure_count = failure_tol(s.args)
    THEN [s EXCEPT !.length = s.length \div 2, !.failure_count = 0]
    ELSE s

\* mutant: success_count is not reset after an expansion
resize_keeps_success_count(s) ==
    IF s.success_count = success_tol(s.args)
    THEN [s EXCEPT !.length = Min2(2 * s.length, s.args.length_max)]
    ELSE IF s.failure_count = failure_tol(s.args)
    THEN [s EXCEPT !.length = s.length \div 2, !.failure_count = 0]
    ELSE s

\* mutant: the failure branch resets the counter and leaves the length
resize_no_shrink(s) ==
    IF s.success_count = success_tol(s.args)
    THEN [s EXCEPT !.length = Min2(2 * s.length, s.args.length_max),
                   !.success_count = 0]
    ELSE IF s.failure_count = failure_tol(s.args)
    THEN [s EXCEPT !.failure_count = 0]
    ELSE s

\* mutant: the length changes one outcome later than the tolerance
resize_late(s) ==
    IF s.success_count = success_tol(s.args) + 1
    THEN [s EXCEPT !.length = Min2(2 * s.length, s.args.length_max),
                   !.success_count = 0]
    ELSE IF s.failure_count = failure_tol(s.args) + 1
    THEN [s EXCEPT !.length = s.length \div 2, !.failure_count = 0]
    ELSE s

\* mutant: a shrink subtracts half of length_init instead of halving
resize_subtracts(s) ==
    IF s.success_count = success_tol(s.args)
    THEN [s EXCEPT !.length = Min2(2 * s.length, s.args.length_max),
                   !.success_count = 0]
    ELSE IF s.failure_count = failure_tol(s.args)
    THEN [s EXCEPT !.length = s.length - s.args.length_init \div 2,
                   !.failure_count = 0]
    ELSE s

\* lines 157-166
resize(s) ==
    IF s.success_count = success_tol(s.args)
    THEN [s EXCEPT !.length = Min2(2 * s.length, s.args.length_max),
                   !.success_count = 0]
    ELSE IF s.failure_count = failure_tol(s.args)
    THEN [s EXCEPT !.length = s.length \div 2, !.failure_count = 0]
    ELSE s

\* mutant: a collapsed region is restarted at once, inside adjust_length
adjust_length_eager_restart(s, new_observation) ==
    LET s0 == [s EXCEPT !.effects = {}, !.locals = NoLocals]
        r == resize(count_outcome(s0,
                 is_success(optim_observation(new_observation), s.model_y)))
    IN  IF Len(s.model_y) = 0
        THEN [s0 EXCEPT !.ret = Raised("ValueError")]
        ELSE IF r.length < s.args.length_min
        THEN [restart_turbo(r, n_init(s.args), 0) EXCEPT !.ret = Returned(<<>>)]
        ELSE [r EXCEPT !.ret = Returned(<<>>)]

\* np.min of an empty model_y raises ValueError at line 146, before any
\* field is written
adjust_length(s, new_observation) ==
    LET s0 == [s EXCEPT !.effects = {}, !.locals = NoLocals] IN
    IF Len(s.model_y) = 0
    THEN [s0 EXCEPT !.ret = Raised("ValueError")]
    ELSE [resize(count_outcome(s0,
              is_success(optim_observation(new_observation), s.model_y)))
            EXCEPT !.ret = Returned(<<>>)]

\* the cut-off of the model: no halving of a length already below
\* length_min / 2^SubBits
Representable(s, new_observation) ==
    (adjust_length(s, new_observation).length < s.length)
        => (s.length * (2 ^ SubBits) >= s.args.length_min /\ s.length % 2 = 0)

----------------------------------------------------------------------------
(* Collaborators of _generate_challengers *)

\* the first index of the minimum (np.argmin)
ArgMin(y) == CHOOSE i \in 1..Len(y) :
    /\ y[i] = SeqMin(y)
    /\ \A k \in 1..(i - 1) : y[k] # y[i]

\* update_model(update_incumbent_array=True) of the abstract subspace: the
\* incumbent is the evaluated point with the least objective value
update_model(s) ==
    [s EXCEPT !.incumbent_array = s.model_x[ArgMin(s.model_y)]]

\* scipy Sobol(d, scramble=True, seed).random(n): n points of [0, 1)^d, a
\* function of the seed
Sobol(d, seed, n) ==
    [i \in 1..n |-> [j \in 1..d |-> (seed * 31 + i * 517 + j * 211) % One]]

\* the k-th draw of np.random.rand in global state g, as a numerator over
\* RandDen, and the raw value behind the k-th np.random.randint after them
NpRand(g, k) == RandDen - 1 - ((g * k + 7 * (k \div 22)) % RandDen)
NpRaw(g, k) == (g + 1) * 13 + k * 5
NpAdvance(g) == (g + 1) % Cardinality(NpStates)
\* the k-th draw of self.rng.rand in state r
RngRand(r, k) == (RngRaw(r) + k * 37) % RandDen

RECURSIVE SeqProd(_)
SeqProd(s) == IF Len(s) = 0 THEN 1 ELSE s[1] * SeqProd(Tail(s))

RECURSIVE IsPower(_, _, _)
IsPower(p, g, d) ==
    IF d = 0 THEN p = 1 ELSE p % g = 0 /\ IsPower(p \div g, g, d - 1)

\* the geometric mean of kernel lengths whose product is a d-th power
GeometricMean(kernel_length) ==
    CHOOSE g \in 1..4 :
        IsPower(SeqProd(kernel_length), g, Len(kernel_length))

\* lines 201-205.  kernel_length / mean / prod((kernel_length / mean)^(1/d))
\* is kernel_length / prod(kernel_length^(1/d)): the division by the mean
\* cancels.  subspace_length[j] = length * kernel_length[j] / geometric mean
subspace_length(s, kernel_length) ==
    LET mean == GeometricMean(kernel_length) IN
    [j \in 1..n_dims(s.args) |-> (s.length * kernel_length[j]) \div mean]

\* mutant: the bounds of the box are not clipped to the unit cube
Clip_none(v) == v

\* np.clip(v, 0.0, 1.0)
Clip(v) == Max2(0, Min2(v, One))

\* lines 207-208
subspace_lb(s, kernel_length) ==
    LET len == subspace_length(s, kernel_length) IN
    [j \in 1..n_dims(s.args) |-> Clip(s.incumbent_array[j] - len[j] \div 2)]
subspace_ub(s, kernel_length) ==
    LET len == subspace_length(s, kernel_length) IN
    [j \in 1..n_dims(s.args) |-> Clip(s.incumbent_array[j] + len[j] \div 2)]

\* line 209: sobol_seq * (subspace_ub - subspace_lb) + subspace_lb
rescale(sobol_seq, lb, ub) ==
    [i \in DOMAIN sobol_seq |->
        [j \in DOMAIN lb |-> (sobol_seq[i][j] * (ub[j] - lb[j])) \div One + lb[j]]]

\* line 214: prob_perturb = min(20.0 / n_dims, 1.0), as a fraction
prob_perturb(d) ==
    IF PerturbDims < d THEN [num |-> PerturbDims, den |-> d]
    ELSE [num |-> 1, den |-> 1]

\* line 215: np.random.rand(n_candidates, n_dims) <= prob_perturb
raw_mask(g, n, d) ==
    [i \in 1..n |-> [j \in 1..d |->
        NpRand(g, (i - 1) * d + j) * prob_perturb(d).den
            <= prob_perturb(d).num * RandDen]]

\* line 216: the rows without a true entry, in increasing order
ZeroRows(mask) == {i \in DOMAIN mask : \A j \in DOMAIN mask[i] : ~mask[i][j]}

\* line 217: np.random.randint(0, n_dims - 1, size=len(ind)), as 1-based
\* columns: the k-th row of ind gets column 1 + randint(0, n_dims - 1)
correction_column(g, k, d) == 1 + RandInt(NpRaw(g, k), 0, d - 1)

\* line 217: the columns randint(0, n_dims - 1) yields over all raw values
\* of the generator (numpy's high is exclusive)
ForcedColumns(d) == {1 + RandInt(raw, 0, d - 1) : raw \in 0..(2 * d)}

\* mutant: rows without a true entry are left as they are
corrected_mask_none(mask, g, d) == mask

\* lines 216-217
corrected_mask(mask, g, d) ==
    LET ind == ZeroRows(mask) IN
    [i \in DOMAIN mask |->
        IF i \in ind
        THEN LET column == correction_column(g, Cardinality({k \in ind : k <= i}), d)
             IN  [j \in 1..d |-> j = column]
        ELSE mask[i]]

\* lines 220-221
masked_design(incumbent, mask, pool) ==
    [i \in DOMAIN mask |-> [j \in DOMAIN incumbent |->
        IF mask[i][j] THEN pool[i][j] ELSE incumbent[j]]]

\* line 190: the surrogate models that expose a kernel length-scale
HasLengthScale(model_local) ==
    model_local \in {"GaussianProcess", "GaussianProcessMCMC",
                     "PartialSparseGaussianProcess", "GaussianProcessGPyTorch"}

----------------------------------------------------------------------------
(* _sort_configs_by_acq_value, lines 244-271 *)

\* np.lexsort((random, acq_values)): acq_values is the primary key, random
\* the secondary one, and the sort is stable
LexBefore(acq, random, i, k) ==
    \/ acq[i] < acq[k]
    \/ acq[i] = acq[k] /\ random[i] < random[k]
    \/ acq[i] = acq[k] /\ random[i] = random[k] /\ i < k

lexsort(acq, random) ==
    [p \in DOMAIN acq |-> CHOOSE i \in DOMAIN acq :
        Cardinality({k \in DOMAIN acq : LexBefore(acq, random, k, i)}) = p - 1]

\* mutant: the order of np.lexsort is kept, the least score first
sort_configs_ascending(configs, acq, random) ==
    LET indices == lexsort(acq, random)
    IN  [p \in 1..Len(configs) |-> [score |-> acq[indices[p]],
                                    config |-> configs[indices[p]]]]

\* line 271: indices[::-1]
sort_configs_by_acq_value(configs, acq, random) ==
    LET indices == lexsort(acq, random)
        n == Len(configs)
    IN  [p \in 1..n |-> [score |-> acq[indices[n + 1 - p]],
                           config |-> configs[indices[n + 1 - p]]]]

----------------------------------------------------------------------------
(* _generate_challengers, lines 168-242 *)

\* mutant: the first element is taken instead of the last
pop_init_front(s) ==
    LET config_next == [s.init_configs[1] EXCEPT !.origin = "TurBO Init"]
    IN  [s EXCEPT !.init_configs = Tail(s.init_configs),
                  !.ret = Returned(<<[score |-> 0, config |-> config_next]>>)]

\* lines 173-175 and 179-181: init_configs.pop() takes the last element
pop_init(s) ==
    LET n == Len(s.init_configs)
        config_next == [s.init_configs[n] EXCEPT !.origin = "TurBO Init"]
    IN  [s EXCEPT !.init_configs = SubSeq(s.init_configs, 1, n - 1),
                  !.ret = Returned(<<[score |-> 0, config |-> config_next]>>)]

\* lines 183-242; x holds what the collaborators supply: the kernel lengths
\* of the trained model, the acquisition values, and the caller's _sorted
model_guided(s, x) ==
    LET a == s.args
        d == n_dims(a)
        n == n_candidates(a)
        t == update_model(s)
        seed == RandInt(RngRaw(s.rng), SobolSeedLow, SobolSeedHigh)
        r1 == RngAdvance(s.rng)
        sobol_seq == Sobol(d, seed, n)
        gp == HasLengthScale(a.model_local)
        lb == subspace_lb(t, x.kernel_length)
        ub == subspace_ub(t, x.kernel_length)
        mask0 == raw_mask(s.np_random, n, d)
        mask == corrected_mask(mask0, NpAdvance(s.np_random), d)
        design == IF gp
                  THEN masked_design(t.incumbent_array, mask,
                                     rescale(sobol_seq, lb, ub))
                  ELSE sobol_seq
        origin == IF x.sorted THEN "Sobol Sequnce (Sorted)" ELSE "Sobol Sequence"
        configs == [i \in 1..n |-> [vector |-> design[i], origin |-> origin]]
        random == [i \in 1..n |-> RngRand(r1, i)]
    IN  [t EXCEPT
            !.effects = {"model.train", "Sobol"}
                \cup (IF gp THEN {"np.random"} ELSE {})
                \cup (IF x.sorted THEN {"acquisition_function", "rng.rand"} ELSE {}),
            !.rng = IF x.sorted THEN RngAdvance(r1) ELSE r1,
            !.np_random = IF gp THEN NpAdvance(NpAdvance(s.np_random)) ELSE @,
            !.locals =
                [raw_mask |-> IF gp THEN mask0 ELSE <<>>,
                 mask |-> IF gp THEN mask ELSE <<>>,
                 lb |-> IF gp THEN lb ELSE <<>>,
                 ub |-> IF gp THEN ub ELSE <<>>,
                 configs |-> configs,
                 acq_values |-> IF x.sorted THEN x.acq ELSE <<>>,
                 random |-> IF x.sorted THEN random ELSE <<>>],
            !.ret = Returned(
                IF x.sorted
                THEN sort_configs_by_acq_value(configs, x.acq, random)
                ELSE [i \in 1..n |-> [score |-> 0, config |-> configs[i]]])]

\* mutant: the length is checked before the pending init queue
generate_challengers_restart_first(s, x) ==
    LET s0 == [s EXCEPT !.effects = {}, !.locals = NoLocals] IN
    IF s.length < s.args.length_min
    THEN pop_init(restart_turbo(s0, n_init(s.args), x.e))
    ELSE IF Len(s.init_configs) > 0
    THEN pop_init(s0)
    ELSE IF Len(s.model_y) = 0
    THEN [s0 EXCEPT !.ret = Raised("ValueError"), !.effects = {"model.train"}]
    ELSE model_guided(s0, x)

\* the surrogate cannot be trained, nor an incumbent found, on an empty
\* history: the collaborator's error propagates (lines 183-184)
generate_challengers(s, x) ==
    LET s0 == [s EXCEPT !.effects = {}, !.locals = NoLocals] IN
    IF Len(s.init_configs) > 0
    THEN pop_init(s0)
    ELSE IF s.length < s.args.length_min
    THEN pop_init(restart_turbo(s0, n_init(s.args), x.e))
    ELSE IF Len(s.model_y) = 0
    THEN [s0 EXCEPT !.ret = Raised("ValueError"), !.effects = {"model.train"}]
    ELSE model_guided(s0, x)

----------------------------------------------------------------------------
(* The state machine *)

VARIABLES
    args,             \* the constructor's arguments
    length,           \* self.length
    success_count,    \* self.success_count
    failure_count,    \* self.failure_count
    model_x,          \* self.model_x, the evaluated points
    model_y,          \* self.model_y, their objective values
    init_configs,     \* self.init_configs, the pending initial design
    incumbent_array,  \* self.incumbent_array (<<>> for None)
    rng,              \* the state of self.rng
    np_random,        \* the state of the process-global np.random
    effects,          \* the collaborators the last call invoked
    locals,           \* lb, ub, the masks, the candidates and their keys in
                      \* the last model-guided call
    ret,              \* what the last call returned or raised
    call,             \* the last call and its argument
    twin              \* a second process running the same calls

vars == <<args, length, success_count, failure_count, model_x, model_y,
          init_configs, incumbent_array, rng, np_random, effects, locals,
          ret, call, twin>>

World ==
    [args |-> args, length |-> length, success_count |-> success_count,
     failure_count |-> failure_count, model_x |-> model_x, model_y |-> model_y,
     init_configs |-> init_configs, incumbent_array |-> incumbent_array,
     rng |-> rng, np_random |-> np_random, effects |-> effects,
     locals |-> locals, ret |-> ret]

Holds(w) ==
    /\ args = w.args
    /\ length = w.length
    /\ success_count = w.success_count
    /\ failure_count = w.failure_count
    /\ model_x = w.model_x
    /\ model_y = w.model_y
    /\ init_configs = w.init_configs
    /\ incumbent_array = w.incumbent_array
    /\ rng = w.rng
    /\ np_random = w.np_random
    /\ effects = w.effects
    /\ locals = w.locals
    /\ ret = w.ret

Becomes(w) ==
    /\ args' = w.args
    /\ length' = w.length
    /\ success_count' = w.success_count
    /\ failure_count' = w.failure_count
    /\ model_x' = w.model_x
    /\ model_y' = w.model_y
    /\ init_configs' = w.init_configs
    /\ incumbent_array' = w.incumbent_array
    /\ rng' = w.rng
    /\ np_random' = w.np_random
    /\ effects' = w.effects
    /\ locals' = w.locals
    /\ ret' = w.ret

NoObservation == [isscalar |-> FALSE, values |-> <<>>]

\* __init__, lines 87-102: the fields, then _restart_turbo(n_init)
Constructed(a, seed, g, e) ==
    restart_turbo(
        [args |-> a, length |-> a.length_init, success_count |-> 0,
         failure_count |-> 0, model_x |-> <<>>, model_y |-> <<>>,
         init_configs |-> <<>>, incumbent_array |-> <<>>, rng |-> seed,
         np_random |-> g, effects |-> {}, locals |-> NoLocals,
         ret |-> Returned(<<>>)],
        n_init(a), e)

\* what the collaborators and the caller can supply to one generation
KernelLengths(d) ==
    {[j \in 1..d |-> 1],
     [j \in 1..d |-> IF j = 1 THEN 4 ELSE IF j = 2 THEN 1 ELSE 2]}
AcqValues == {0, 1}
GenerateInputs(a) ==
    [e : Entropy,
     kernel_length : KernelLengths(n_dims(a)),
     acq : [1..n_candidates(a) -> AcqValues],
     sorted : BOOLEAN]

\* the inputs the call reads in state s, the others held at one value: the
\* entropy is read by a restart only, the collaborators' answers by a
\* model-guided generation only, the acquisition values only when sorting
InputsRead(s) ==
    LET all == GenerateInputs(s.args)
        x0 == CHOOSE x \in all : TRUE
        guided == /\ Len(s.init_configs) = 0
                  /\ s.length >= s.args.length_min
                  /\ Len(s.model_y) > 0
    IN  {x \in all :
            /\ (Len(s.init_configs) > 0 \/ s.length >= s.args.length_min)
                    => x.e = x0.e
            /\ ~guided => x.sorted = x0.sorted
            /\ ~(guided /\ HasLengthScale(s.args.model_local))
                    => x.kernel_length = x0.kernel_length
            /\ ~(guided /\ x.sorted) => x.acq = x0.acq}

\* the evaluations the outer loop reports: a point and its objective value
Corner(d) == [j \in 1..d |-> 0]
Inner(d) == [j \in 1..d |-> (j * One) \div (d + 1)]
Evaluations(d) ==
    IF d > 20
    THEN {[x |-> Inner(d), y |-> 1000]}
    ELSE {[x |-> Corner(d), y |-> 1000], [x |-> Inner(d), y |-> 1000],
          [x |-> Inner(d), y |-> 998]}

InitWith(a) ==
    /\ \E seed \in RngStates, g \in NpStates, e \in Entropy :
            Holds(Constructed(a, seed, g, e))
    /\ call = [name |-> "__init__", new_observation |-> NoObservation]
    /\ twin = <<>>

Init == InitWith(ArgsLowDim)
InitHighDim == InitWith(ArgsHighDim)

AdjustLength ==
    \E obs \in NewObservations(args) :
        /\ Representable(World, obs)
        /\ Becomes(adjust_length(World, obs))
        /\ call' = [name |-> "adjust_length", new_observation |-> obs]
        /\ UNCHANGED twin

GenerateChallengers ==
    \E x \in InputsRead(World) :
        /\ Becomes(generate_challengers(World, x))
        /\ call' = [name |-> "generate_challengers", new_observation |-> NoObservation]
        /\ UNCHANGED twin

\* add_new_observations of the abstract subspace: the point and its value
\* are appended to the history
add_new_observations(s, px, py) ==
    [s EXCEPT !.model_x = Append(@, px), !.model_y = Append(@, py),
              !.effects = {}, !.locals = NoLocals, !.ret = Returned(<<>>)]

AddNewObservations ==
    \E ev \in Evaluations(n_dims(args)) :
        /\ Len(model_y) < MaxObs
        /\ Becomes(add_new_observations(World, ev.x, ev.y))
        /\ call' = [name |-> "add_new_observations", new_observation |-> NoObservation]
        /\ UNCHANGED twin

\* any other code of the process that draws from or reseeds np.random
OtherGlobalRandomUse ==
    \E g \in NpStates :
        /\ g # np_random
        /\ np_random' = g
        /\ call' = [name |-> "np.random", new_observation |-> NoObservation]
        /\ UNCHANGED <<args, length, success_count, failure_count, model_x,
                       model_y, init_configs, incumbent_array, rng, effects,
                       locals, ret, twin>>

Next ==
    \/ AdjustLength
    \/ GenerateChallengers
    \/ AddNewObservations
    \/ OtherGlobalRandomUse

Spec == Init /\ [][Next]_vars
SpecHighDim == InitHighDim /\ [][Next]_vars

----------------------------------------------------------------------------
(* Two processes: the same constructor arguments and seed of self.rng, the *)
(* same calls with the same arguments and the same answers of the          *)
(* collaborators; each process has its own np.random and its own entropy.  *)

InitTwin ==
    \E seed \in RngStates, g1 \in NpStates, g2 \in NpStates,
       e1 \in Entropy, e2 \in Entropy :
        /\ Holds(Constructed(ArgsLowDim, seed, g1, e1))
        /\ twin = Constructed(ArgsLowDim, seed, g2, e2)
        /\ call = [name |-> "__init__", new_observation |-> NoObservation]

\* what the outer loop reports to both: an improving and a non-improving
\* value, and one evaluated point
TwinObservations == {[isscalar |-> TRUE, values |-> <<y>>] : y \in {998, 1000}}
TwinEvaluations(d) == {[x |-> Inner(d), y |-> 1000]}

TwinAdjustLength ==
    \E obs \in TwinObservations :
        /\ Representable(World, obs)
        /\ Representable(twin, obs)
        /\ Becomes(adjust_length(World, obs))
        /\ twin' = adjust_length(twin, obs)
        /\ call' = [name |-> "adjust_length", new_observation |-> obs]

TwinGenerateChallengers ==
    \E x \in InputsRead(World), e2 \in {y.e : y \in InputsRead(twin)} :
        /\ Becomes(generate_challengers(World, x))
        /\ twin' = generate_challengers(twin, [x EXCEPT !.e = e2])
        /\ call' = [name |-> "generate_challengers", new_observation |-> NoObservation]

TwinAddNewObservations ==
    \E ev \in TwinEvaluations(n_dims(args)) :
        /\ Len(model_y) < MaxObs
        /\ Becomes(add_new_observations(World, ev.x, ev.y))
        /\ twin' = add_new_observations(twin, ev.x, ev.y)
        /\ call' = [name |-> "add_new_observations", new_observation |-> NoObservation]

TwinOtherGlobalRandomUse ==
    \E g \in NpStates :
        /\ \/ g # np_random /\ np_random' = g /\ twin' = twin
           \/ g # twin.np_random /\ np_random' = np_random
                /\ twin' = [twin EXCEPT !.np_random = g]
        /\ call' = [name |-> "np.random", new_observation |-> NoObservation]
        /\ UNCHANGED <<args, length, success_count, failure_count, model_x,
                       model_y, init_configs, incumbent_array, rng, effects,
                       locals, ret>>

NextTwin ==
    \/ TwinAdjustLength
    \/ TwinGenerateChallengers
    \/ TwinAddNewObservations
    \/ TwinOtherGlobalRandomUse

SpecTwin == InitTwin /\ [][NextTwin]_vars

----------------------------------------------------------------------------
(* Objective values of either sign and at the margin: histories whose best *)
(* value is positive, zero or negative, and observations below, at and     *)
(* above best - 1e-3 * |best|.                                             *)

MarginEvaluations(d) == {[x |-> Inner(d), y |-> y] : y \in {1000, 0, 0 - 1000}}
MarginObservations ==
    {[isscalar |-> TRUE, values |-> <<y>>] :
        y \in {1000, 999, 998, 0, 0 - 1, 0 - 1000, 0 - 1001, 0 - 1002}}
        \cup {[isscalar |-> FALSE, values |-> v] :
                v \in {<<1000, 998>>, <<0 - 1001, 0 - 999>>}}

MarginAdjustLength ==
    \E obs \in MarginObservations :
        /\ Representable(World, obs)
        /\ Becomes(adjust_length(World, obs))
        /\ call' = [name |-> "adjust_length", new_observation |-> obs]
        /\ UNCHANGED twin

MarginAddNewObservations ==
    \E ev \in MarginEvaluations(n_dims(args)) :
        /\ Len(model_y) < MaxObs
        /\ Becomes(add_new_observations(World, ev.x, ev.y))
        /\ call' = [name |-> "add_new_observations", new_observation |-> NoObservation]
        /\ UNCHANGED twin

NextMargin ==
    \/ MarginAdjustLength
    \/ GenerateChallengers
    \/ MarginAddNewObservations

SpecMargin == Init /\ [][NextMargin]_vars

----------------------------------------------------------------------------
(* The outer loop: it asks for challengers, reports their evaluation and   *)
(* calls adjust_length on the non-empty history, and goes on for ever.     *)

\* what the loop reports: an improving and a non-improving value, and one
\* evaluated point
LoopObservations == {[isscalar |-> TRUE, values |-> <<y>>] : y \in {998, 1000}}
LoopEvaluations(d) == {[x |-> Inner(d), y |-> 1000]}

LoopGenerate ==
    /\ call.name \in {"__init__", "adjust_length"}
    /\ \E x \in InputsRead(World) :
        \E w \in {generate_challengers(World, x)} :
            /\ Becomes(w)
            /\ call' = [name |-> "generate_challengers",
                        new_observation |-> NoObservation]
            /\ UNCHANGED twin

LoopAddNewObservations ==
    /\ call.name = "generate_challengers"
    /\ Len(model_y) < MaxObs
    /\ \E ev \in LoopEvaluations(n_dims(args)) :
        \E w \in {add_new_observations(World, ev.x, ev.y)} :
            /\ Becomes(w)
            /\ call' = [name |-> "add_new_observations",
                        new_observation |-> NoObservation]
            /\ UNCHANGED twin

LoopAdjustLength ==
    /\ call.name \in {"generate_challengers", "add_new_observations"}
    /\ Len(model_y) > 0
    /\ \E obs \in LoopObservations :
        \E w \in {adjust_length(World, obs)} :
            /\ Representable(World, obs)
            /\ Becomes(w)
            /\ call' = [name |-> "adjust_length", new_observation |-> obs]
            /\ UNCHANGED twin

NextLoop ==
    \/ LoopGenerate
    \/ LoopAddNewObservations
    \/ LoopAdjustLength

SpecLoop == Init /\ [][NextLoop]_vars /\ WF_vars(NextLoop)

----------------------------------------------------------------------------
(* Construction, lines 70-102: the state after super().__init__ returned,  *)
(* then the body of __init__ from line 80 on.                              *)

\* the kinds of hyperparameter of a configuration space; the integer and the
\* float kinds are the NumericalHyperparameter ones of ConfigSpace
HyperparameterKinds == {"UniformFloat", "UniformInteger", "Categorical"}
IsNumerical(kind) == kind \in {"UniformFloat", "UniformInteger"}

\* a configuration space: its hyperparameters and the numbers of its
\* conditions and forbidden clauses
ConfigSpaces(d) ==
    [hyperparameters : [1..d -> HyperparameterKinds],
     conditions : 0..1,
     forbiddens : 0..1]

\* mutant: forbidden clauses are not looked at
config_space_error_ignores_forbiddens(cs) ==
    \/ \E j \in DOMAIN cs.hyperparameters : ~IsNumerical(cs.hyperparameters[j])
    \/ cs.conditions > 0

\* lines 80-85: the two checks that raise ValueError
config_space_error(cs) ==
    \/ \E j \in DOMAIN cs.hyperparameters : ~IsNumerical(cs.hyperparameters[j])
    \/ cs.conditions > 0
    \/ cs.forbiddens > 0

\* the fields after super().__init__ (lines 70-79): no initial data, no
\* incumbent, and none of the fields of lines 87-98 yet
BeforeInitBody(a, seed, g) ==
    [args |-> a, length |-> 0, success_count |-> 0, failure_count |-> 0,
     model_x |-> <<>>, model_y |-> <<>>, init_configs |-> <<>>,
     incumbent_array |-> <<>>, rng |-> seed, np_random |-> g, effects |-> {},
     locals |-> NoLocals, ret |-> Returned(<<>>)]

InitConstruct ==
    /\ \E seed \in RngStates, g \in NpStates :
            Holds(BeforeInitBody(ArgsLowDim, seed, g))
    /\ \E cs \in ConfigSpaces(ArgsLowDim.n_dims) :
            call = [name |-> "super().__init__", new_observation |-> NoObservation,
                    config_space |-> cs]
    /\ twin = <<>>

\* lines 80-102
InitBody ==
    /\ call.name = "super().__init__"
    /\ IF config_space_error(call.config_space)
       THEN /\ ret' = Raised("ValueError")
            /\ UNCHANGED <<args, length, success_count, failure_count, model_x,
                           model_y, init_configs, incumbent_array, rng,
                           np_random, effects, locals>>
       ELSE \E e \in Entropy : Becomes(Constructed(args, rng, np_random, e))
    /\ call' = [name |-> "__init__", new_observation |-> NoObservation]
    /\ UNCHANGED twin

\* the operations need a constructed object
IsConstructed ==
    /\ call.name # "super().__init__"
    /\ ~(call.name = "__init__" /\ ret.kind = "raise")

NextConstruct ==
    \/ InitBody
    \/ IsConstructed /\ AdjustLength
    \/ IsConstructed /\ GenerateChallengers
    \/ IsConstructed /\ AddNewObservations
    \/ IsConstructed /\ OtherGlobalRandomUse

SpecConstruct == InitConstruct /\ [][NextConstruct]_vars

----------------------------------------------------------------------------
(* Properties *)

IsAdjust(c) == c.name = "adjust_length"
IsGenerate(c) == c.name = "generate_challengers"

\* the observation of call c is a success against history y (line 146)
Improves(c, y) ==
    /\ Len(y) > 0
    /\ MarginDen * optim_observation(c.new_observation)
            < MarginDen * SeqMin(y) - Abs(SeqMin(y))

\* C1 as stated: length_min <= length <= length_max in every state
\* observable between calls.
C1_LengthWithinMinMax ==
    args.length_min <= length /\ length <= args.length_max

\* C1, amended: length <= length_max in every state; adjust_length can leave
\* length below length_min, and length_min <= length holds again after every
\* generate_challengers call that found the pending init queue empty.
C1_LengthBounds ==
    /\ [](length <= args.length_max)
    /\ [][(IsGenerate(call') /\ Len(init_configs) = 0)
            => args.length_min <= length']_vars

C1_Witness ==
    /\ IsGenerate(call)
    /\ "LatinHypercube" \in effects
    /\ length = args.length_init

\* the state after a restart whose first design point was handed out: the
\* returned point is the last of a design of n_init points, the others pend
RestartedAndPopped ==
    /\ length' = args.length_init
    /\ model_x' = <<>> /\ model_y' = <<>>
    /\ success_count' = 0 /\ failure_count' = 0
    /\ \E e \in Entropy :
        LET n == args.n_init_x_params * args.n_dims
            design == LatinHypercube(args.n_dims, e, n)
        IN  /\ ret' = Returned(<<[score |-> 0,
                                  config |-> [vector |-> design[n],
                                              origin |-> "TurBO Init"]]>>)
            /\ init_configs' = [i \in 1..(n - 1) |-> Configuration(design[i])]

\* C2 as stated: whenever length is below length_min, the next
\* generate_challengers call restarts, whatever the pending init queue holds.
C2_RestartWhateverQueue ==
    [][(IsGenerate(call') /\ length < args.length_min) => RestartedAndPopped]_vars

\* C2, amended: whenever length is below length_min, a generate_challengers
\* call made with an empty pending init queue returns one point of a fresh
\* design of n_init points and leaves length = length_init, an empty history
\* and both counters 0; made with a non-empty queue it pops a pending point
\* and restarts nothing (the queue is checked before the length).
C2_RestartWhenQueueEmpty ==
    [][(IsGenerate(call') /\ length < args.length_min) =>
        IF Len(init_configs) = 0
        THEN RestartedAndPopped
        ELSE /\ length' = length
             /\ model_y' = model_y
             /\ Len(init_configs') = Len(init_configs) - 1]_vars

C2_Witness ==
    /\ IsGenerate(call)
    /\ effects = {"LatinHypercube"}
    /\ Len(init_configs) = args.n_init_x_params * args.n_dims - 1
    /\ Len(model_y) = 0

\* C3 as stated: adjust_length never raises, in any reachable state.
C3_AdjustNeverRaises ==
    IsAdjust(call) => ret.kind = "return"

\* C4: at most one of success_count and failure_count is nonzero, and
\* neither is negative.
C4_CountersExclusive ==
    /\ success_count >= 0 /\ failure_count >= 0
    /\ success_count = 0 \/ failure_count = 0

C4_Witness ==
    /\ IsAdjust(call)
    /\ failure_count > 0
    /\ Improves(call, model_y) = FALSE

\* C5: a success that is the success_tol-th in a row sets length to
\* min(2 * length, length_max) and both counters to 0; an earlier success
\* of the run leaves length unchanged and only counts; success_count stays
\* below success_tol between calls, so a run starting at 0 expands once.
C5_ExpandOnSuccessTol ==
    /\ [](success_count < args.success_tol)
    /\ [][(IsAdjust(call') /\ Improves(call', model_y)) =>
            IF success_count + 1 = args.success_tol
            THEN /\ length' = Min2(2 * length, args.length_max)
                 /\ success_count' = 0 /\ failure_count' = 0
            ELSE /\ length' = length
                 /\ success_count' = success_count + 1
                 /\ failure_count' = 0]_vars

C5_Witness ==
    /\ IsAdjust(call)
    /\ Improves(call, model_y)
    /\ length = 2 * args.length_init
    /\ success_count = 0 /\ failure_count = 0

\* C6: with failure_tol = max(failure_tol_min, n_dims), a failure that is
\* the failure_tol-th in a row halves length and sets both counters to 0; an
\* earlier failure of the run leaves length unchanged and only counts;
\* failure_count stays below failure_tol between calls.
C6_ShrinkOnFailureTol ==
    /\ [](failure_count < Max2(args.failure_tol_min, args.n_dims))
    /\ [][(IsAdjust(call') /\ Len(model_y) > 0 /\ ~Improves(call', model_y)) =>
            IF failure_count + 1 = Max2(args.failure_tol_min, args.n_dims)
            THEN /\ 2 * length' = length
                 /\ success_count' = 0 /\ failure_count' = 0
            ELSE /\ length' = length
                 /\ failure_count' = failure_count + 1
                 /\ success_count' = 0]_vars

C6_Witness ==
    /\ IsAdjust(call)
    /\ ret.kind = "return"
    /\ ~Improves(call, model_y)
    /\ 2 * length = args.length_init
    /\ success_count = 0 /\ failure_count = 0

\* C7: with a non-empty pending init queue, generate_challengers returns the
\* single pair (0, last element of the queue), removes that element, calls
\* no collaborator and draws from no random source, and leaves length, the
\* counters and the history unchanged.
C7_InitQueueFirst ==
    [][(IsGenerate(call') /\ Len(init_configs) > 0) =>
        LET n == Len(init_configs) IN
        /\ ret' = Returned(<<[score |-> 0,
                              config |-> [vector |-> init_configs[n].vector,
                                          origin |-> "TurBO Init"]]>>)
        /\ init_configs' = SubSeq(init_configs, 1, n - 1)
        /\ effects' = {}
        /\ UNCHANGED <<length, success_count, failure_count, model_x, model_y,
                       rng, np_random, incumbent_array>>]_vars

C7_Witness ==
    /\ IsGenerate(call)
    /\ effects = {}
    /\ Len(ret.value) = 1
    /\ Len(init_configs) > 0
    /\ Len(model_y) > 0

\* C8: adjust_length restarts nothing and leaves the history and the pending
\* init queue unchanged; it leaves length unchanged whenever the counter it
\* increments does not reach its tolerance, and everything when it raises.
C8_AdjustFrame ==
    [][IsAdjust(call') =>
        /\ UNCHANGED <<model_x, model_y, init_configs, rng, np_random,
                       incumbent_array>>
        /\ effects' = {}
        /\ (IF Improves(call', model_y)
            THEN success_count + 1 # args.success_tol
            ELSE failure_count + 1 # Max2(args.failure_tol_min, args.n_dims))
                => length' = length
        /\ ret'.kind = "raise"
                => UNCHANGED <<length, success_count, failure_count>>]_vars

C8_Witness ==
    /\ IsAdjust(call)
    /\ ret.kind = "return"
    /\ length < args.length_min
    /\ Len(init_configs) > 0
    /\ Len(model_y) > 0

\* C9 as stated: two subspaces with the same seed of self.rng, driven by the
\* same calls and the same collaborators, return the same results.
C9_Reproducible ==
    ret = twin.ret

\* C10: after a model-guided generation with a length-scale, every row of
\* the corrected mask has a true entry, a row that had none has exactly one,
\* and each candidate keeps the incumbent's value exactly where its mask is
\* false.
C10_MaskRowsNonEmpty ==
    (IsGenerate(call) /\ locals.mask # <<>>) =>
        \A i \in DOMAIN locals.mask :
            LET row == locals.mask[i]
                on == {j \in DOMAIN row : row[j]}
            IN  /\ on # {}
                /\ (\A j \in DOMAIN row : ~locals.raw_mask[i][j])
                        => Cardinality(on) = 1
                /\ \E p \in DOMAIN ret.value :
                       \A j \in DOMAIN row :
                           ~row[j] => ret.value[p].config.vector[j]
                                          = incumbent_array[j]

C10_Witness ==
    /\ IsGenerate(call)
    /\ locals.mask # <<>>
    /\ \E i \in DOMAIN locals.raw_mask :
           \A j \in DOMAIN locals.raw_mask[i] : ~locals.raw_mask[i][j]

\* C11 as stated: when a mask row has no true entry, the dimension forced to
\* true is drawn among all n_dims dimensions: every index 0..n_dims-1, the
\* last one included, is a possible outcome of the correction.
C11_EveryDimensionPossible ==
    (/\ IsGenerate(call)
     /\ locals.mask # <<>>
     /\ \E i \in DOMAIN locals.raw_mask :
            \A j \in DOMAIN locals.raw_mask[i] : ~locals.raw_mask[i][j])
        => \A column \in 1..args.n_dims : column \in ForcedColumns(args.n_dims)

\* C12: with ranking requested, the returned sequence is a permutation of
\* the candidates, each paired with its own acquisition value, in
\* non-increasing order of that value; candidates of equal value are ordered
\* by their draws from self.rng (the greater draw first).
C12_RankedPermutation ==
    (IsGenerate(call) /\ locals.acq_values # <<>>) =>
        LET n == Len(locals.configs) IN
        /\ Len(ret.value) = n
        /\ \E p \in [1..n -> 1..n] :
              /\ \A i, k \in 1..n : p[i] = p[k] => i = k
              /\ \A i \in 1..n :
                    ret.value[i] = [score |-> locals.acq_values[p[i]],
                                    config |-> locals.configs[p[i]]]
              /\ \A i, k \in 1..n :
                    (i < k /\ ret.value[i].score = ret.value[k].score)
                        => locals.random[p[i]] >= locals.random[p[k]]
        /\ \A i, k \in 1..n : i < k => ret.value[i].score >= ret.value[k].score

C12_Witness ==
    /\ IsGenerate(call)
    /\ locals.acq_values # <<>>
    /\ locals.acq_values[1] = locals.acq_values[2]
    /\ locals.random[1] < locals.random[2]
    /\ locals.configs[1] # locals.configs[2]
    /\ ret.value[1].config = locals.configs[2]

\* C13: every point generate_challengers returns, from the initial design
\* or model-guided, has all its coordinates in [0, 1]; in a model-guided
\* call the bounds satisfy 0 <= lb_i <= ub_i <= 1, and each coordinate of a
\* candidate is the incumbent's or lies in [lb_i, ub_i].
C13_PointsInUnitCube ==
    (IsGenerate(call) /\ ret.kind = "return") =>
        /\ \A p \in DOMAIN ret.value :
              \A j \in 1..args.n_dims :
                 /\ 0 <= ret.value[p].config.vector[j]
                 /\ ret.value[p].config.vector[j] <= One
        /\ locals.lb # <<>> =>
              \A j \in 1..args.n_dims :
                 /\ 0 <= locals.lb[j]
                 /\ locals.lb[j] <= locals.ub[j]
                 /\ locals.ub[j] <= One
                 /\ \A p \in DOMAIN ret.value :
                       \/ ret.value[p].config.vector[j] = incumbent_array[j]
                       \/ /\ locals.lb[j] <= ret.value[p].config.vector[j]
                          /\ ret.value[p].config.vector[j] <= locals.ub[j]

C13_Witness ==
    /\ IsGenerate(call)
    /\ ret.kind = "return"
    /\ locals.lb # <<>>
    /\ \E j \in 1..args.n_dims :
          /\ locals.lb[j] = 0
          /\ 2 * incumbent_array[j] < length
          /\ \E p \in DOMAIN ret.value :
                ret.value[p].config.vector[j] # incumbent_array[j]

\* C14 as stated: construction over a configuration space with a
\* non-continuous parameter, a condition or a forbidden clause raises, and
\* construction over a purely continuous, unconditional space succeeds.
C14_ContinuousOnly ==
    [][(call.name = "super().__init__" /\ call'.name = "__init__") =>
        (ret'.kind = "raise" <=>
            \/ \E j \in DOMAIN call.config_space.hyperparameters :
                   call.config_space.hyperparameters[j] # "UniformFloat"
            \/ call.config_space.conditions > 0
            \/ call.config_space.forbiddens > 0)]_vars

\* C14, amended: construction raises ValueError exactly when the space has
\* a parameter that is not numerical (float or integer), a condition or a
\* forbidden clause; otherwise it succeeds and leaves a fresh subspace with
\* n_init pending design points.
C14_NumericalOnly ==
    [][(call.name = "super().__init__" /\ call'.name = "__init__") =>
        IF \/ \E j \in DOMAIN call.config_space.hyperparameters :
                 call.config_space.hyperparameters[j]
                     \notin {"UniformFloat", "UniformInteger"}
           \/ call.config_space.conditions > 0
           \/ call.config_space.forbiddens > 0
        THEN ret' = [kind |-> "raise", value |-> <<"ValueError">>]
        ELSE /\ ret'.kind = "return"
             /\ length' = args.length_init
             /\ Len(init_configs') = args.n_init_x_params * args.n_dims]_vars

C14_Witness ==
    /\ call.name = "__init__"
    /\ ret.kind = "raise"
    /\ length = 0

\* C15: the initial design is consumed completely, last point first, before
\* model-guided generation resumes: construction leaves n_init =
\* n_init_x_params * n_dims points pending, a restart inside
\* generate_challengers returns one and leaves n_init - 1 pending, every
\* generate_challengers call made while a point is pending returns exactly
\* that point with score 0 and takes it off the queue, and no other
\* operation changes the queue.
C15_InitDesignConsumedFirst ==
    /\ [](call.name = "__init__"
            => Len(init_configs) = args.n_init_x_params * args.n_dims)
    /\ [][IsGenerate(call') =>
            IF Len(init_configs) > 0
            THEN /\ Len(ret'.value) = 1
                 /\ ret'.value[1].score = 0
                 /\ ret'.value[1].config =
                        [vector |-> init_configs[Len(init_configs)].vector,
                         origin |-> "TurBO Init"]
                 /\ Len(init_configs') = Len(init_configs) - 1
                 /\ \A i \in 1..Len(init_configs') :
                        init_configs'[i] = init_configs[i]
            ELSE length < args.length_min =>
                 /\ Len(ret'.value) = 1
                 /\ ret'.value[1].score = 0
                 /\ ret'.value[1].config.origin = "TurBO Init"
                 /\ Len(init_configs')
                        = args.n_init_x_params * args.n_dims - 1]_vars
    /\ [][~IsGenerate(call') => init_configs' = init_configs]_vars

C15_Witness ==
    /\ IsGenerate(call)
    /\ effects = {}
    /\ Len(init_configs) = 0
    /\ Len(ret.value) = 1
    /\ ret.value[1].config.origin = "TurBO Init"
    /\ length < args.length_min

\* C16: an observation counts as a success exactly when its representative
\* value (the scalar, or the least element of a sequence) is strictly less
\* than best - 1e-3 * |best|, best being the least value of the history
\* before the call; a value equal to best, or better by the margin or less,
\* counts as a failure.
C16_SuccessMargin ==
    [][(IsAdjust(call') /\ Len(model_y) > 0) =>
        LET obs == call'.new_observation
            value == IF obs.isscalar THEN obs.values[1] ELSE SeqMin(obs.values)
            best == SeqMin(model_y)
            margin == IF best < 0 THEN 0 - best ELSE best
        IN  IF 1000 * value < 1000 * best - margin
            THEN /\ failure_count' = 0
                 /\ IF success_count + 1 = args.success_tol
                    THEN success_count' = 0 /\ length' >= length
                    ELSE success_count' = success_count + 1 /\ length' = length
            ELSE /\ success_count' = 0
                 /\ IF failure_count + 1 = Max2(args.failure_tol_min, args.n_dims)
                    THEN failure_count' = 0 /\ 2 * length' = length
                    ELSE failure_count' = failure_count + 1
                            /\ length' = length]_vars

C16_Witness ==
    /\ IsAdjust(call)
    /\ ret.kind = "return"
    /\ call.new_observation = [isscalar |-> TRUE, values |-> <<0 - 1001>>]
    /\ Len(model_y) > 0
    /\ SeqMin(model_y) = 0 - 1000
    /\ failure_count = 1
    /\ success_count = 0

\* C17: after construction, a restart (a fresh initial design, length back
\* at length_init, counters and history cleared) happens inside a
\* generate_challengers call exactly when, at the start of that call, the
\* pending init queue is empty and length < length_min; a
\* generate_challengers call in any other state resets nothing, and no
\* other operation draws a design, refills the queue or clears the history.
C17_RestartOnlyWhenCollapsed ==
    /\ [][IsGenerate(call') =>
            IF Len(init_configs) = 0 /\ length < args.length_min
            THEN /\ "LatinHypercube" \in effects'
                 /\ length' = args.length_init
                 /\ success_count' = 0 /\ failure_count' = 0
                 /\ model_x' = <<>> /\ model_y' = <<>>
                 /\ Len(init_configs') = args.n_init_x_params * args.n_dims - 1
            ELSE /\ "LatinHypercube" \notin effects'
                 /\ UNCHANGED <<length, success_count, failure_count,
                                model_x, model_y>>
                 /\ Len(init_configs') <= Len(init_configs)]_vars
    /\ [][~IsGenerate(call') =>
            /\ init_configs' = init_configs
            /\ Len(model_y') >= Len(model_y)
            /\ effects' = effects \/ "LatinHypercube" \notin effects']_vars

C17_Witness ==
    /\ IsGenerate(call)
    /\ "LatinHypercube" \in effects
    /\ Len(ret.value) = 1
    /\ success_count = 0 /\ failure_count = 0
    /\ model_x = <<>>

\* C18: if the outer loop keeps alternating generate_challengers and
\* adjust_length on a non-empty history, and from some point on every
\* observation is a failure, then a restart occurs after that point (and,
\* the failures going on, again and again).  adjust_length leaves the
\* history as it is, so the state after a call shows whether its
\* observation was a failure.
C18_FailuresLeadToRestart ==
    <>[](IsAdjust(call) => ~Improves(call, model_y))
        => []<>(IsGenerate(call) /\ "LatinHypercube" \in effects)

C18_Witness ==
    /\ IsGenerate(call)
    /\ "LatinHypercube" \in effects
    /\ Len(ret.value) = 1
    /\ ret.value[1].score = 0
    /\ length = args.length_init

\* C19: with success_tol >= 1, between calls 0 <= success_count <
\* success_tol and 0 <= failure_count < failure_tol = max(failure_tol_min,
\* n_dims); one adjust_length call leaves length, or expands it (only on a
\* success), or halves it (only on a failure), never both.
C19_CountersBelowTolerance ==
    /\ [](/\ args.success_tol >= 1
          /\ success_count \in 0..(args.success_tol - 1)
          /\ failure_count \in 0..(Max2(args.failure_tol_min, args.n_dims) - 1))
    /\ [][IsAdjust(call') =>
            /\ \/ length' = length
               \/ length' = Min2(2 * length, args.length_max)
               \/ 2 * length' = length
            /\ length' > length => Improves(call', model_y)
            /\ length' < length => ~Improves(call', model_y)]_vars

C19_Witness ==
    /\ IsAdjust(call)
    /\ Improves(call, model_y)
    /\ success_count = args.success_tol - 1
    /\ success_count > 0
    /\ length = args.length_max

====
